---- MODULE Spec2Model ----
(***************************************************************************)
(* A model of prefect's dependency graph (prefect/core/flow.py, class      *)
(* Flow) and of the single-task runner (prefect/runners/task_runner.py,    *)
(* class TaskRunner).                                                      *)
(*                                                                         *)
(* Tasks are identified by their id (1..NumTasks); 0 stands for an object  *)
(* that is not a Task.  An edge key is 1..NumKeys, and 0 stands for None.  *)
(***************************************************************************)
EXTENDS Integers, Sequences, FiniteSets, TLC

\* ---------------------------------------------------------------- bounds
NumTasks == 3
NumKeys == 1
MaxEdges == 3
MaxUpstream == 2
NumValues == 1
MaxProgress == 1

TaskIds == 1..NumTasks
NotATask == 0
NoKey == 0
Keys == 0..NumKeys

\* Edge(upstream_task, downstream_task, key): a value compared by its triple
Edge(u, d, k) == [upstream_task |-> u, downstream_task |-> d, key |-> k]

VARIABLES
    tasks,       \* Flow.tasks: the ids that are keys of the dict
    edges,       \* Flow.edges: a set of Edge
    flow_call,   \* the last Flow method called: name, arguments, error raised, value
    all_ok,      \* no add_task / add_edge call has raised so far
    run_pc,      \* TaskRunner.run: "call" before it, then "returned" or "raised"
    run_in,      \* the arguments of run(), the task's trigger and body, the context
    run_out,     \* what run() returned and what it did on the way
    sort,        \* a call of Flow.sorted_tasks in progress: its position and locals
    conc,        \* two calls of run() in progress at once: position and locals of each
    context      \* prefect.context, as far as run() uses it: the 'debug' flag

flow_vars == <<tasks, edges, flow_call, all_ok>>
run_vars == <<run_pc, run_in, run_out>>
conc_vars == <<conc, context>>

\* ------------------------------------------------------ Flow: pure helpers

\* all the orders in which Python may iterate over the set S
RECURSIVE Perms(_)
Perms(S) ==
    IF S = {} THEN { <<>> }
    ELSE UNION { { <<x>> \o p : p \in Perms(S \ {x}) } : x \in S }

\* Flow.get_task(name): the task, or ValueError
get_task(ts, name) ==
    IF name \in ts THEN [error |-> "none", task |-> name]
    ELSE [error |-> "not_found", task |-> name]

\* Flow.upstream_tasks(task): get_task of every edge into task_id
upstream_tasks(ts, es, task_id) ==
    LET ups == { e.upstream_task : e \in { x \in es : x.downstream_task = task_id } }
    IN  IF \E u \in ups : get_task(ts, u).error # "none"
        THEN [error |-> "not_found", set |-> {}]
        ELSE [error |-> "none", set |-> ups]

\* Flow.downstream_tasks(task): get_task of every edge out of task_id
downstream_tasks(ts, es, task_id) ==
    LET downs == { e.downstream_task : e \in { x \in es : x.upstream_task = task_id } }
    IN  IF \E d \in downs : get_task(ts, d).error # "none"
        THEN [error |-> "not_found", set |-> {}]
        ELSE [error |-> "none", set |-> downs]

\* The loop of lines 205-211: one round adds the downstream tasks of every
\* task not seen yet and marks it seen; rounds repeat until seen = tasks.
RECURSIVE DownstreamLoop(_, _, _, _)
DownstreamLoop(ts, es, sel, seen) ==
    IF seen = sel THEN [error |-> "none", set |-> sel]
    ELSE LET fresh == sel \ seen
             bad == \E t \in fresh : downstream_tasks(ts, es, t).error # "none"
             added == UNION { downstream_tasks(ts, es, t).set : t \in fresh }
         IN  IF bad THEN [error |-> "not_found", set |-> {}]
             ELSE DownstreamLoop(ts, es, sel \cup added, seen \cup fresh)

\* ScanPass with the test of line 220 weakened: a task is held back only
\* when all of its upstream tasks remain, not when any of them does
RECURSIVE ScanPass_any_upstream_done(_, _, _, _, _, _, _)
ScanPass_any_upstream_done(ts, es, order, i, remaining, sorted, acyclic) ==
    IF i > Len(order)
    THEN [error |-> "none", remaining |-> remaining, sorted |-> sorted, acyclic |-> acyclic]
    ELSE LET task == order[i]
             ups == upstream_tasks(ts, es, task)
         IN  IF ups.error # "none"
             THEN [error |-> "not_found", remaining |-> remaining, sorted |-> sorted,
                   acyclic |-> acyclic]
             ELSE IF ups.set # {} /\ \A u \in ups.set : u \in remaining
             THEN ScanPass_any_upstream_done(ts, es, order, i + 1, remaining, sorted,
                                             acyclic)
             ELSE ScanPass_any_upstream_done(ts, es, order, i + 1, remaining \ {task},
                                             Append(sorted, task), TRUE)

\* ScanPass that does not count a task as its own upstream task
RECURSIVE ScanPass_ignores_self(_, _, _, _, _, _, _)
ScanPass_ignores_self(ts, es, order, i, remaining, sorted, acyclic) ==
    IF i > Len(order)
    THEN [error |-> "none", remaining |-> remaining, sorted |-> sorted, acyclic |-> acyclic]
    ELSE LET task == order[i]
             ups == upstream_tasks(ts, es, task)
         IN  IF ups.error # "none"
             THEN [error |-> "not_found", remaining |-> remaining, sorted |-> sorted,
                   acyclic |-> acyclic]
             ELSE IF \E u \in ups.set \ {task} : u \in remaining
             THEN ScanPass_ignores_self(ts, es, order, i + 1, remaining, sorted, acyclic)
             ELSE ScanPass_ignores_self(ts, es, order, i + 1, remaining \ {task},
                                        Append(sorted, task), TRUE)

\* One pass of "for task in list(tasks)" (lines 218-229) over the snapshot
\* `order`, from position i: a task none of whose upstream tasks is still in
\* `remaining` is removed from it and appended to `sorted`.
RECURSIVE ScanPass(_, _, _, _, _, _, _)
ScanPass(ts, es, order, i, remaining, sorted, acyclic) ==
    IF i > Len(order)
    THEN [error |-> "none", remaining |-> remaining, sorted |-> sorted, acyclic |-> acyclic]
    ELSE LET task == order[i]
             ups == upstream_tasks(ts, es, task)
         IN  IF ups.error # "none"
             THEN [error |-> "not_found", remaining |-> remaining, sorted |-> sorted,
                   acyclic |-> acyclic]
             ELSE IF \E u \in ups.set : u \in remaining
             THEN ScanPass(ts, es, order, i + 1, remaining, sorted, acyclic)
             ELSE ScanPass(ts, es, order, i + 1, remaining \ {task},
                           Append(sorted, task), TRUE)

\* The loop "while tasks" (lines 216-232): every outcome it can produce, one
\* per choice of iteration order in each pass.
RECURSIVE SortLoop(_, _, _, _)
SortLoop(ts, es, remaining, sorted) ==
    IF remaining = {} THEN { [error |-> "none", order |-> sorted] }
    ELSE LET passes == { ScanPass(ts, es, order, 1, remaining, sorted, FALSE) :
                            order \in Perms(remaining) }
         IN  UNION { IF r.error # "none" THEN { [error |-> "not_found", order |-> <<>>] }
                     ELSE IF ~r.acyclic THEN { [error |-> "cyclic", order |-> <<>>] }
                     ELSE SortLoop(ts, es, r.remaining, r.sorted)
                     : r \in passes }

\* Flow.sorted_tasks(root_tasks): the set of its possible outcomes.
\* use_roots = FALSE is root_tasks=None; as_str says the roots are given as
\* ids (strings), which get_task looks up, instead of Task objects.
sorted_tasks(ts, es, use_roots, roots, as_str) ==
    IF ~use_roots THEN SortLoop(ts, es, ts, <<>>)
    ELSE IF as_str /\ \E t \in roots : get_task(ts, t).error # "none"
    THEN { [error |-> "not_found", order |-> <<>>] }
    ELSE LET sel == DownstreamLoop(ts, es, roots, {})
         IN  IF sel.error # "none" THEN { [error |-> "not_found", order |-> <<>>] }
             ELSE SortLoop(ts, es, sel.set, <<>>)

\* Flow.edges_to(task)
edges_to(es, task_id) == { e \in es : e.downstream_task = task_id }

\* Flow.edges_from(task)
edges_from(es, task_id) == { e \in es : e.upstream_task = task_id }

\* root_tasks that looks at the edges leaving a task
root_tasks_edges_from(ts, es) == { t \in ts : edges_from(es, t) = {} }

\* Flow.root_tasks()
root_tasks(ts, es) == { t \in ts : edges_to(es, t) = {} }

\* Flow.terminal_tasks()
terminal_tasks(ts, es) == { t \in ts : edges_from(es, t) = {} }

\* sub_flow that keeps an edge as soon as its downstream task is kept
sub_flow_downstream_only(ts, es, use_roots, roots, as_str) ==
    { IF r.error # "none" THEN [error |-> r.error, tasks |-> {}, edges |-> {}]
      ELSE LET sub_tasks == { r.order[i] : i \in 1..Len(r.order) }
           IN  [error |-> "none", tasks |-> sub_tasks,
                edges |-> { e \in es : e.downstream_task \in sub_tasks }]
      : r \in sorted_tasks(ts, es, use_roots, roots, as_str) }

\* Flow.sub_flow(root_tasks): the Flow it returns, for each outcome of
\* sorted_tasks(root_tasks)
sub_flow(ts, es, use_roots, roots, as_str) ==
    { IF r.error # "none" THEN [error |-> r.error, tasks |-> {}, edges |-> {}]
      ELSE LET sub_tasks == { r.order[i] : i \in 1..Len(r.order) }
           IN  [error |-> "none", tasks |-> sub_tasks,
                edges |-> { e \in es : /\ e.upstream_task \in sub_tasks
                                       /\ e.downstream_task \in sub_tasks }]
      : r \in sorted_tasks(ts, es, use_roots, roots, as_str) }

\* ------------------------------------------------------------ Flow: state

\* what the last call of a Flow method was and how it ended; use_roots, roots
\* and as_str are the arguments of a sorted_tasks or sub_flow call, order what
\* sorted_tasks returned; arg is the task id given to a lookup, ret_tasks and
\* ret_edges the tasks and edges a lookup or sub_flow returned
Call(op, error) ==
    [op |-> op, error |-> error, use_roots |-> FALSE, roots |-> {}, as_str |-> FALSE,
     order |-> <<>>, arg |-> 0, ret_tasks |-> {}, ret_edges |-> {}]

FlowInit ==
    /\ tasks = {}
    /\ edges = {}
    /\ flow_call = Call("init", "none")
    /\ all_ok = TRUE

\* Flow.add_task(task)
add_task(task) ==
    IF task = NotATask
    THEN /\ flow_call' = Call("add_task", "type_error")
         /\ all_ok' = FALSE
         /\ UNCHANGED <<tasks, edges>>
    ELSE /\ tasks' = tasks \cup {task}
         /\ flow_call' = Call("add_task", "none")
         /\ UNCHANGED <<edges, all_ok>>

\* add_edge whose duplicate test also compares the upstream task, so that
\* only a repeated edge from the same upstream is rejected
add_edge_same_upstream_only(u, d, key) ==
    LET edge == Edge(u, d, key)
        with_tasks == tasks \cup {u, d}
        existing_edges ==
            { e \in edges : e.downstream_task = d /\ e.key = key /\ e.upstream_task = u }
        with_edge == edges \cup {edge}
        check == { r.error : r \in sorted_tasks(with_tasks, with_edge, FALSE, {}, FALSE) }
    IN  /\ Cardinality(edges) < MaxEdges
        /\ tasks' = with_tasks
        /\ IF key # NoKey /\ existing_edges # {}
           THEN /\ edges' = edges
                /\ flow_call' = Call("add_edge", "duplicate_key")
                /\ all_ok' = FALSE
           ELSE /\ edges' = with_edge
                /\ \E err \in check :
                      /\ flow_call' = Call("add_edge", err)
                      /\ all_ok' = (all_ok /\ err = "none")

\* Flow.add_edge(upstream_task, downstream_task, key)
add_edge(u, d, key) ==
    LET edge == Edge(u, d, key)
        with_tasks == tasks \cup {u, d}
        existing_edges == { e \in edges : e.downstream_task = d /\ e.key = key }
        with_edge == edges \cup {edge}
        check == { r.error : r \in sorted_tasks(with_tasks, with_edge, FALSE, {}, FALSE) }
    IN  /\ Cardinality(edges) < MaxEdges
        /\ tasks' = with_tasks
        /\ IF key # NoKey /\ existing_edges # {}
           THEN /\ edges' = edges
                /\ flow_call' = Call("add_edge", "duplicate_key")
                /\ all_ok' = FALSE
           ELSE /\ edges' = with_edge
                /\ \E err \in check :
                      /\ flow_call' = Call("add_edge", err)
                      /\ all_ok' = (all_ok /\ err = "none")

\* a call of Flow.sorted_tasks(root_tasks) and one of its possible outcomes
call_sorted_tasks(use_roots, roots, as_str) ==
    /\ \E r \in sorted_tasks(tasks, edges, use_roots, roots, as_str) :
          flow_call' = [Call("sorted_tasks", r.error) EXCEPT
                           !.use_roots = use_roots, !.roots = roots, !.as_str = as_str,
                           !.order = r.order]
    /\ UNCHANGED <<tasks, edges, all_ok>>

\* a lookup by task id: get_task, upstream_tasks, downstream_tasks, edges_to
\* or edges_from
call_lookup(op, t) ==
    /\ flow_call' =
          CASE op = "get_task" ->
                 LET r == get_task(tasks, t)
                 IN  [Call(op, r.error) EXCEPT
                         !.arg = t,
                         !.ret_tasks = IF r.error = "none" THEN {r.task} ELSE {}]
            [] op = "upstream_tasks" ->
                 LET r == upstream_tasks(tasks, edges, t)
                 IN  [Call(op, r.error) EXCEPT !.arg = t, !.ret_tasks = r.set]
            [] op = "downstream_tasks" ->
                 LET r == downstream_tasks(tasks, edges, t)
                 IN  [Call(op, r.error) EXCEPT !.arg = t, !.ret_tasks = r.set]
            [] op = "edges_to" ->
                 [Call(op, "none") EXCEPT !.arg = t, !.ret_edges = edges_to(edges, t)]
            [] op = "edges_from" ->
                 [Call(op, "none") EXCEPT !.arg = t, !.ret_edges = edges_from(edges, t)]
    /\ UNCHANGED <<tasks, edges, all_ok>>

Lookups == {"get_task", "upstream_tasks", "downstream_tasks", "edges_to", "edges_from"}

\* a call of Flow.root_tasks()
call_root_tasks ==
    /\ flow_call' = [Call("root_tasks", "none") EXCEPT !.ret_tasks = root_tasks(tasks, edges)]
    /\ UNCHANGED <<tasks, edges, all_ok>>

\* a call of Flow.terminal_tasks()
call_terminal_tasks ==
    /\ flow_call' = [Call("terminal_tasks", "none") EXCEPT
                        !.ret_tasks = terminal_tasks(tasks, edges)]
    /\ UNCHANGED <<tasks, edges, all_ok>>

\* a call of Flow.sub_flow(root_tasks) and one of its possible outcomes
call_sub_flow(use_roots, roots, as_str) ==
    /\ \E r \in sub_flow(tasks, edges, use_roots, roots, as_str) :
          flow_call' = [Call("sub_flow", r.error) EXCEPT
                           !.use_roots = use_roots, !.roots = roots, !.as_str = as_str,
                           !.ret_tasks = r.tasks, !.ret_edges = r.edges]
    /\ UNCHANGED <<tasks, edges, all_ok>>

FlowNext ==
    \/ \E t \in TaskIds \cup {NotATask} : add_task(t) /\ UNCHANGED <<run_vars, sort, conc_vars>>
    \/ \E u, d \in TaskIds, k \in Keys : add_edge(u, d, k) /\ UNCHANGED <<run_vars, sort, conc_vars>>
    \/ call_sorted_tasks(FALSE, {}, FALSE) /\ UNCHANGED <<run_vars, sort, conc_vars>>
    \/ \E roots \in SUBSET TaskIds, as_str \in BOOLEAN :
          call_sorted_tasks(TRUE, roots, as_str) /\ UNCHANGED <<run_vars, sort, conc_vars>>
    \/ \E op \in Lookups, t \in TaskIds : call_lookup(op, t) /\ UNCHANGED <<run_vars, sort, conc_vars>>
    \/ call_root_tasks /\ UNCHANGED <<run_vars, sort, conc_vars>>
    \/ call_terminal_tasks /\ UNCHANGED <<run_vars, sort, conc_vars>>
    \/ call_sub_flow(FALSE, {}, FALSE) /\ UNCHANGED <<run_vars, sort, conc_vars>>
    \/ \E roots \in SUBSET TaskIds, as_str \in BOOLEAN :
          call_sub_flow(TRUE, roots, as_str) /\ UNCHANGED <<run_vars, sort, conc_vars>>

\* ------------------------------------- Flow.sorted_tasks, statement by statement

\* no call of sorted_tasks in progress
NoSort ==
    [pc |-> "idle", use_roots |-> FALSE, roots |-> {}, as_str |-> FALSE, tasks |-> {},
     seen |-> {}, list |-> <<>>, sorted |-> <<>>, acyclic |-> FALSE, error |-> "none"]

\* lines 196-203 and 213: the tasks to sort, the roots or all tasks
sort_start ==
    /\ sort.pc = "start"
    /\ sort' =
          IF ~sort.use_roots
          THEN [sort EXCEPT !.pc = "sort_while", !.tasks = tasks]
          ELSE IF sort.as_str /\ \E t \in sort.roots : get_task(tasks, t).error # "none"
          THEN [sort EXCEPT !.pc = "raised", !.error = "not_found"]
          ELSE [sort EXCEPT !.pc = "closure_while", !.tasks = sort.roots]
    /\ UNCHANGED <<flow_vars, run_vars, conc_vars>>

\* line 205 and the list of line 207, in any order
closure_while ==
    /\ sort.pc = "closure_while"
    /\ IF sort.seen # sort.tasks
       THEN \E l \in Perms(sort.tasks \ sort.seen) :
               sort' = [sort EXCEPT !.pc = "closure_for", !.list = l]
       ELSE sort' = [sort EXCEPT !.pc = "sort_while"]
    /\ UNCHANGED <<flow_vars, run_vars, conc_vars>>

\* lines 207-211, for one task of the list
closure_for ==
    /\ sort.pc = "closure_for"
    /\ IF sort.list = <<>>
       THEN sort' = [sort EXCEPT !.pc = "closure_while"]
       ELSE LET t == Head(sort.list)
                downs == downstream_tasks(tasks, edges, t)
            IN  sort' =
                   IF downs.error # "none"
                   THEN [sort EXCEPT !.pc = "raised", !.error = "not_found"]
                   ELSE [sort EXCEPT !.tasks = @ \cup downs.set, !.seen = @ \cup {t},
                                     !.list = Tail(@)]
    /\ UNCHANGED <<flow_vars, run_vars, conc_vars>>

\* lines 216-218 and 234: the end, or the list of a new scan, in any order
sort_while ==
    /\ sort.pc = "sort_while"
    /\ IF sort.tasks = {}
       THEN sort' = [sort EXCEPT !.pc = "returned"]
       ELSE \E l \in Perms(sort.tasks) :
               sort' = [sort EXCEPT !.pc = "sort_for", !.list = l, !.acyclic = FALSE]
    /\ UNCHANGED <<flow_vars, run_vars, conc_vars>>

\* sort_for that goes on to the next scan when a scan has sorted no task
sort_for_no_cycle_test ==
    /\ sort.pc = "sort_for"
    /\ IF sort.list = <<>>
       THEN sort' = [sort EXCEPT !.pc = "sort_while"]
       ELSE LET task == Head(sort.list)
                ups == upstream_tasks(tasks, edges, task)
            IN  sort' =
                   IF ups.error # "none"
                   THEN [sort EXCEPT !.pc = "raised", !.error = "not_found"]
                   ELSE IF \E u \in ups.set : u \in sort.tasks
                   THEN [sort EXCEPT !.list = Tail(@)]
                   ELSE [sort EXCEPT !.list = Tail(@), !.acyclic = TRUE,
                                     !.tasks = @ \ {task}, !.sorted = Append(@, task)]
    /\ UNCHANGED <<flow_vars, run_vars, conc_vars>>

\* lines 218-232, for one task of the list, and the test after the scan
sort_for ==
    /\ sort.pc = "sort_for"
    /\ IF sort.list = <<>>
       THEN sort' = IF ~sort.acyclic
                    THEN [sort EXCEPT !.pc = "raised", !.error = "cyclic"]
                    ELSE [sort EXCEPT !.pc = "sort_while"]
       ELSE LET task == Head(sort.list)
                ups == upstream_tasks(tasks, edges, task)
            IN  sort' =
                   IF ups.error # "none"
                   THEN [sort EXCEPT !.pc = "raised", !.error = "not_found"]
                   ELSE IF \E u \in ups.set : u \in sort.tasks
                   THEN [sort EXCEPT !.list = Tail(@)]
                   ELSE [sort EXCEPT !.list = Tail(@), !.acyclic = TRUE,
                                     !.tasks = @ \ {task}, !.sorted = Append(@, task)]
    /\ UNCHANGED <<flow_vars, run_vars, conc_vars>>

\* the edges a Flow over the task set ts can hold
EdgesOver(ts) == { Edge(u, d, k) : u \in ts, d \in ts, k \in Keys }

\* the sets of at most n elements of S
RECURSIVE UpTo(_, _)
UpTo(S, n) ==
    IF n = 0 THEN { {} }
    ELSE LET smaller == UpTo(S, n - 1)
         IN  smaller \cup { q \cup {x} : q \in smaller, x \in S }

\* --------------------------------------------------- TaskRunState (state.py)

States == {"pending", "running", "succeeded", "failed", "skipped", "shutdown"}

is_pending(s) == s = "pending"
is_running(s) == s = "running"
is_finished(s) == s \in {"succeeded", "failed", "skipped", "shutdown"}
is_successful(s) == s = "succeeded"
start(s) == "running"
succeed(s) == "succeeded"
fail(s) == "failed"
skip(s) == "skipped"
shutdown(s) == "shutdown"

\* ------------------------------------------------------------- the inputs

NoResult == 0
Values == 0..NumValues

\* upstream_states: {task.name: TaskRunState}, the names being 1..n
UpstreamStates == UNION { [1..n -> States] : n \in 0..MaxUpstream }

\* the trigger attached to the task, a predicate of the upstream states
Triggers == {"all_successful", "any_successful", "all_finished"}

trigger(name, upstream_states) ==
    CASE name = "all_successful" ->
            \A i \in DOMAIN upstream_states : is_successful(upstream_states[i])
      [] name = "any_successful" ->
            \E i \in DOMAIN upstream_states : is_successful(upstream_states[i])
      [] name = "all_finished" ->
            \A i \in DOMAIN upstream_states : is_finished(upstream_states[i])

Signals == {"SUCCESS", "SKIP", "RETRY", "SHUTDOWN", "DONTRUN", "FAIL"}

\* what task.run(**inputs) does: it returns a value, raises a signal or raises
\* another error, after yielding `progress` values when it is a generator
Bodies ==
    LET ends ==
            { [kind |-> "return", value |-> v, msg |-> ""] : v \in Values }
            \cup { [kind |-> "SUCCESS", value |-> v, msg |-> "reason"] : v \in Values }
            \cup { [kind |-> k, value |-> NoResult, msg |-> "reason"] :
                      k \in Signals \ {"SUCCESS"} }
            \cup { [kind |-> "error", value |-> NoResult, msg |-> "boom"] }
    IN  { [kind |-> e.kind, value |-> e.value, msg |-> e.msg, progress |-> n] :
             e \in ends, n \in 0..MaxProgress }

NoException == [kind |-> "none", value |-> NoResult, msg |-> ""]
Exception(kind, value, msg) == [kind |-> kind, value |-> value, msg |-> msg]

\* traceback.format_exc() of the error being handled
format_exc(msg) == "Traceback (most recent call last): " \o msg

\* -------------------------------------------------------------- TaskRunner

\* check_state without the tests of lines 119-126: only a running task is
\* turned away, a finished one is started again
check_state_restarts_finished(state, upstream_states, trig) ==
    IF ~(\A i \in DOMAIN upstream_states : is_finished(upstream_states[i]))
    THEN [state |-> state, trigger_called |-> FALSE,
          exc |-> Exception("DONTRUN", NoResult, "Upstream tasks are not finished.")]
    ELSE IF ~trigger(trig, upstream_states)
    THEN [state |-> state, trigger_called |-> TRUE,
          exc |-> Exception("DONTRUN", NoResult, "Trigger failed")]
    ELSE IF is_running(state)
    THEN [state |-> state, trigger_called |-> TRUE,
          exc |-> Exception("DONTRUN", NoResult, "TaskRun is already running.")]
    ELSE [state |-> start(state), trigger_called |-> TRUE, exc |-> NoException]

\* check_state that evaluates the trigger before it looks at the upstream states
check_state_trigger_first(state, upstream_states, trig) ==
    IF ~trigger(trig, upstream_states)
    THEN [state |-> state, trigger_called |-> TRUE,
          exc |-> Exception("DONTRUN", NoResult, "Trigger failed")]
    ELSE IF ~(\A i \in DOMAIN upstream_states : is_finished(upstream_states[i]))
    THEN [state |-> state, trigger_called |-> TRUE,
          exc |-> Exception("DONTRUN", NoResult, "Upstream tasks are not finished.")]
    ELSE IF is_running(state)
    THEN [state |-> state, trigger_called |-> TRUE,
          exc |-> Exception("DONTRUN", NoResult, "TaskRun is already running.")]
    ELSE IF is_finished(state)
    THEN [state |-> state, trigger_called |-> TRUE,
          exc |-> Exception("DONTRUN", NoResult, "TaskRun is already finished.")]
    ELSE IF ~is_pending(state)
    THEN [state |-> state, trigger_called |-> TRUE,
          exc |-> Exception("DONTRUN", NoResult, "TaskRun is not ready to run")]
    ELSE [state |-> start(state), trigger_called |-> TRUE, exc |-> NoException]

\* TaskRunner.check_state(state, upstream_states)
check_state(state, upstream_states, trig) ==
    IF ~(\A i \in DOMAIN upstream_states : is_finished(upstream_states[i]))
    THEN [state |-> state, trigger_called |-> FALSE,
          exc |-> Exception("DONTRUN", NoResult, "Upstream tasks are not finished.")]
    ELSE IF ~trigger(trig, upstream_states)
    THEN [state |-> state, trigger_called |-> TRUE,
          exc |-> Exception("DONTRUN", NoResult, "Trigger failed")]
    ELSE IF is_running(state)
    THEN [state |-> state, trigger_called |-> TRUE,
          exc |-> Exception("DONTRUN", NoResult, "TaskRun is already running.")]
    ELSE IF is_finished(state)
    THEN [state |-> state, trigger_called |-> TRUE,
          exc |-> Exception("DONTRUN", NoResult, "TaskRun is already finished.")]
    ELSE IF ~is_pending(state)
    THEN [state |-> state, trigger_called |-> TRUE,
          exc |-> Exception("DONTRUN", NoResult, "TaskRun is not ready to run")]
    ELSE [state |-> start(state), trigger_called |-> TRUE, exc |-> NoException]

\* run_task that raises FAIL without the traceback
run_task_no_traceback(body) ==
    IF body.kind = "return"
    THEN [result |-> body.value, progress |-> body.progress, exc |-> NoException]
    ELSE IF body.kind \in Signals
    THEN [result |-> NoResult, progress |-> body.progress,
          exc |-> Exception(body.kind, body.value, body.msg)]
    ELSE [result |-> NoResult, progress |-> body.progress,
          exc |-> Exception("FAIL", NoResult, "")]

\* TaskRunner.run_task(inputs): the result, or the exception that leaves it
run_task(body) ==
    IF body.kind = "return"
    THEN [result |-> body.value, progress |-> body.progress, exc |-> NoException]
    ELSE IF body.kind \in Signals
    THEN [result |-> NoResult, progress |-> body.progress,
          exc |-> Exception(body.kind, body.value, body.msg)]
    ELSE [result |-> NoResult, progress |-> body.progress,
          exc |-> Exception("FAIL", NoResult, format_exc(body.msg))]

\* catch_signals whose DONTRUN clause marks the state failed
catch_signals_dontrun_fails(state, exc, debug) ==
    LET info == <<[level |-> "info", msg |-> exc.msg]>>
        error == <<[level |-> "error", msg |-> "TaskRun: An unexpected error occurred"]>>
    IN  CASE exc.kind = "SUCCESS" -> [state |-> succeed(state), log |-> info, raised |-> FALSE]
          [] exc.kind = "SKIP" -> [state |-> skip(state), log |-> info, raised |-> FALSE]
          [] exc.kind = "RETRY" -> [state |-> fail(state), log |-> info, raised |-> FALSE]
          [] exc.kind = "SHUTDOWN" -> [state |-> shutdown(state), log |-> info, raised |-> FALSE]
          [] exc.kind = "DONTRUN" -> [state |-> fail(state), log |-> info, raised |-> FALSE]
          [] exc.kind = "FAIL" -> [state |-> fail(state), log |-> info, raised |-> FALSE]
          [] OTHER -> IF debug THEN [state |-> state, log |-> error, raised |-> TRUE]
                      ELSE [state |-> fail(state), log |-> error, raised |-> FALSE]

\* catch_signals without a clause for SHUTDOWN ahead of the one for failures
catch_signals_shutdown_fails(state, exc, debug) ==
    LET info == <<[level |-> "info", msg |-> exc.msg]>>
        error == <<[level |-> "error", msg |-> "TaskRun: An unexpected error occurred"]>>
    IN  CASE exc.kind = "SUCCESS" -> [state |-> succeed(state), log |-> info, raised |-> FALSE]
          [] exc.kind = "SKIP" -> [state |-> skip(state), log |-> info, raised |-> FALSE]
          [] exc.kind = "RETRY" -> [state |-> fail(state), log |-> info, raised |-> FALSE]
          [] exc.kind = "DONTRUN" -> [state |-> state, log |-> info, raised |-> FALSE]
          [] exc.kind \in {"FAIL", "SHUTDOWN"} ->
                [state |-> fail(state), log |-> info, raised |-> FALSE]
          [] OTHER -> IF debug THEN [state |-> state, log |-> error, raised |-> TRUE]
                      ELSE [state |-> fail(state), log |-> error, raised |-> FALSE]

\* TaskRunner.catch_signals(state): the except clauses, tried in their order
catch_signals(state, exc, debug) ==
    LET info == <<[level |-> "info", msg |-> exc.msg]>>
        error == <<[level |-> "error", msg |-> "TaskRun: An unexpected error occurred"]>>
    IN  CASE exc.kind = "SUCCESS" -> [state |-> succeed(state), log |-> info, raised |-> FALSE]
          [] exc.kind = "SKIP" -> [state |-> skip(state), log |-> info, raised |-> FALSE]
          [] exc.kind = "RETRY" -> [state |-> fail(state), log |-> info, raised |-> FALSE]
          [] exc.kind = "SHUTDOWN" -> [state |-> shutdown(state), log |-> info, raised |-> FALSE]
          [] exc.kind = "DONTRUN" -> [state |-> state, log |-> info, raised |-> FALSE]
          [] exc.kind = "FAIL" -> [state |-> fail(state), log |-> info, raised |-> FALSE]
          [] OTHER -> IF debug THEN [state |-> state, log |-> error, raised |-> TRUE]
                      ELSE [state |-> fail(state), log |-> error, raised |-> FALSE]

\* TaskRunner.finalize(state, result)
finalize(state, result) == [state |-> succeed(state), result |-> result]

\* line 51 without its test of the state
initial_result_any_state(state, success_result) == success_result

\* line 51 of TaskRunner.run: the result a run that does nothing gives back
initial_result(state, success_result) ==
    IF is_successful(state) THEN success_result ELSE NoResult

\* TaskRunner.run(state, upstream_states, inputs, context, success_result):
\* the state and result it returns, with what happened on the way: the
\* exception check_state raised (check), whether the trigger was evaluated,
\* whether state.start() and the body ran, the exception catch_signals
\* handled (caught), the log lines, and whether run() raised
run_result(in) ==
    LET result0 == initial_result(in.state, in.success_result)
        checked == check_state(in.state, in.upstream_states, in.trigger)
        ran == run_task(in.body)
        final == finalize(checked.state, ran.result)
        out(state, result, body_ran, progress, exc, caught) ==
            [state |-> state, result |-> result, check |-> checked.exc.kind,
             trigger_called |-> checked.trigger_called,
             started |-> checked.exc = NoException, body_ran |-> body_ran,
             progress |-> progress, caught |-> exc, log |-> caught.log,
             raised |-> caught.raised]
        quiet == [log |-> <<>>, raised |-> FALSE]
    IN  IF checked.exc # NoException
        THEN LET c == catch_signals(checked.state, checked.exc, in.debug)
             IN  out(c.state, result0, FALSE, 0, checked.exc, c)
        ELSE IF ran.exc # NoException
        THEN LET c == catch_signals(checked.state, ran.exc, in.debug)
             IN  out(c.state, result0, TRUE, ran.progress, ran.exc, c)
        ELSE out(final.state, final.result, TRUE, ran.progress, NoException, quiet)

NoOutput ==
    [state |-> "pending", result |-> NoResult, check |-> "none", trigger_called |-> FALSE,
     started |-> FALSE, body_ran |-> FALSE, progress |-> 0, caught |-> NoException,
     log |-> <<>>, raised |-> FALSE]

\* run() with its default arguments, for a task that returns None
NoInput ==
    [state |-> "pending", upstream_states |-> <<>>, trigger |-> "all_successful",
     body |-> [kind |-> "return", value |-> NoResult, msg |-> "", progress |-> 0],
     debug |-> FALSE, success_result |-> NoResult]

RunInputs ==
    [state : States, upstream_states : UpstreamStates, trigger : Triggers, body : Bodies,
     debug : BOOLEAN, success_result : Values]

run ==
    /\ run_pc = "call"
    /\ LET o == run_result(run_in)
       IN  /\ run_out' = o
           /\ run_pc' = IF o.raised THEN "raised" ELSE "returned"
    /\ UNCHANGED <<run_in, flow_vars, sort, conc_vars>>

\* ------------------------------------------- two calls of run() at the same time

\* the two calls, each of its own TaskRunner and for its own task
Runners == 1..2

\* the positions of a call between its first and its last statement
InProgress == {"check_state", "start", "run_task", "resolve"}

\* the locals of one call of run(): its arguments, its state and result, the
\* exception on its way to catch_signals, the context its `with` block puts
\* back on exit, and whether it took a step while the other call was under way
NoCall ==
    [pc |-> "idle", in |-> NoInput, state |-> "pending", result |-> NoResult,
     exc |-> NoException, saved |-> FALSE, met |-> FALSE]

NoConc == [i \in Runners |-> NoCall]

\* line 48 with the upstream task being the task of the other call: the
\* state handed in is the state that call is working on
upstream_states_of_other_call(i) == <<conc[3 - i].state>>

\* line 48: the upstream states a call was handed, none of them the state of
\* the other call's task, which is neither upstream nor downstream of its own
upstream_states_of(i) == conc[i].in.upstream_states

\* a step of call i leaves the other call alone
step(i, call) ==
    conc' = [conc EXCEPT ![i] = [call EXCEPT !.met = @ \/ conc[3 - i].pc \in InProgress]]

\* lines 47-53: the locals, and the context of the `with` block
conc_call(i) ==
    /\ conc[i].pc = "call"
    /\ step(i, [conc[i] EXCEPT
                   !.pc = "check_state",
                   !.state = conc[i].in.state,
                   !.result = initial_result(conc[i].in.state, conc[i].in.success_result),
                   !.saved = context])
    /\ context' = conc[i].in.debug
    /\ UNCHANGED <<flow_vars, run_vars, sort>>

\* lines 55-57 and 104-130: the tests of check_state
conc_check_state(i) ==
    /\ conc[i].pc = "check_state"
    /\ LET checked == check_state(conc[i].state, upstream_states_of(i), conc[i].in.trigger)
       IN  step(i, IF checked.exc # NoException
                   THEN [conc[i] EXCEPT !.pc = "resolve", !.exc = checked.exc]
                   ELSE [conc[i] EXCEPT !.pc = "start"])
    /\ UNCHANGED <<flow_vars, run_vars, sort, context>>

\* line 132: state.start()
conc_start(i) ==
    /\ conc[i].pc = "start"
    /\ step(i, [conc[i] EXCEPT !.pc = "run_task", !.state = start(@)])
    /\ UNCHANGED <<flow_vars, run_vars, sort, context>>

\* line 58: the body of the task, inside run_task
conc_run_task(i) ==
    /\ conc[i].pc = "run_task"
    /\ LET ran == run_task(conc[i].in.body)
       IN  step(i, IF ran.exc # NoException
                   THEN [conc[i] EXCEPT !.pc = "resolve", !.exc = ran.exc]
                   ELSE [conc[i] EXCEPT !.pc = "resolve", !.result = ran.result])
    /\ UNCHANGED <<flow_vars, run_vars, sort, context>>

\* lines 59-61 and 66-90: finalize, or the except clause of catch_signals
\* with the 'debug' flag the context holds by then; the `with` block of line
\* 53 is left and run() returns or raises
conc_resolve(i) ==
    /\ conc[i].pc = "resolve"
    /\ IF conc[i].exc = NoException
       THEN LET final == finalize(conc[i].state, conc[i].result)
            IN  step(i, [conc[i] EXCEPT !.pc = "returned", !.state = final.state,
                                        !.result = final.result])
       ELSE LET caught == catch_signals(conc[i].state, conc[i].exc, context)
            IN  step(i, [conc[i] EXCEPT
                           !.pc = IF caught.raised THEN "raised" ELSE "returned",
                           !.state = caught.state])
    /\ context' = conc[i].saved
    /\ UNCHANGED <<flow_vars, run_vars, sort>>

\* the arguments of the calls that run at the same time: any prior state,
\* no upstream task or one, finished or not, the default trigger, and a body
\* of every kind that hands over a value when it can
ConcInputs ==
    { in \in [state : States,
              upstream_states : {<<>>, <<"succeeded">>, <<"running">>},
              trigger : {"all_successful"},
              body : { b \in Bodies : /\ b.progress = 0
                                      /\ b.kind \in {"return", "SUCCESS"}
                                            => b.value = NumValues },
              debug : BOOLEAN,
              success_result : {NumValues}] : TRUE }

ConcInit ==
    /\ FlowInit
    /\ run_pc = "idle"
    /\ run_in = NoInput
    /\ run_out = NoOutput
    /\ sort = NoSort
    /\ context = FALSE
    /\ \E in1, in2 \in ConcInputs :
          conc = [i \in Runners |->
                     [NoCall EXCEPT !.pc = "call", !.in = IF i = 1 THEN in1 ELSE in2]]

ConcNext ==
    \E i \in Runners :
       \/ conc_call(i)
       \/ conc_check_state(i)
       \/ conc_start(i)
       \/ conc_run_task(i)
       \/ conc_resolve(i)

vars == <<tasks, edges, flow_call, all_ok, run_pc, run_in, run_out, sort, conc, context>>

\* a Flow under construction, no task being run
FlowOnlyInit ==
    /\ FlowInit
    /\ run_pc = "idle"
    /\ run_in = NoInput
    /\ run_out = NoOutput
    /\ sort = NoSort
    /\ conc = NoConc
    /\ context = FALSE

FlowSpec == FlowOnlyInit /\ [][FlowNext]_vars

RunInit ==
    /\ FlowInit
    /\ run_pc = "call"
    /\ run_in \in RunInputs
    /\ run_out = NoOutput
    /\ sort = NoSort
    /\ conc = NoConc
    /\ context = FALSE

RunNext == run

RunSpec == RunInit /\ [][RunNext]_vars

\* sorted_tasks is called, with or without roots, on a Flow that holds any
\* tasks and any edges between them, at most one per downstream task and key
SortInit ==
    /\ tasks \in SUBSET TaskIds
    /\ edges \in { es \in UpTo(EdgesOver(tasks), MaxEdges) :
                      \A e1, e2 \in es :
                         (e1.key # NoKey /\ e1.key = e2.key
                          /\ e1.downstream_task = e2.downstream_task) => e1 = e2 }
    /\ flow_call = Call("init", "none")
    /\ all_ok = TRUE
    /\ run_pc = "idle"
    /\ run_in = NoInput
    /\ run_out = NoOutput
    /\ \E use_roots \in BOOLEAN, roots \in SUBSET TaskIds, as_str \in BOOLEAN :
          /\ ~use_roots => (roots = {} /\ ~as_str)
          /\ sort = [NoSort EXCEPT !.pc = "start", !.use_roots = use_roots,
                                   !.roots = roots, !.as_str = as_str]
    /\ conc = NoConc
    /\ context = FALSE

SortNext ==
    \/ sort_start
    \/ closure_while
    \/ closure_for
    \/ sort_while
    \/ sort_for

\* two TaskRunners, each running its task, their steps in any order
ConcSpec == ConcInit /\ [][ConcNext]_vars

\* a call of sorted_tasks goes on until it returns or raises
SortSpec == SortInit /\ [][SortNext]_vars /\ WF_vars(SortNext)
\* ================================================================ the graph

\* the tasks reachable from S along at most n edges
RECURSIVE Downstream(_, _)
Downstream(S, n) ==
    IF n = 0 THEN S
    ELSE Downstream(S \cup { e.downstream_task : e \in { x \in edges : x.upstream_task \in S } },
                    n - 1)

\* the downstream closure of the roots, the roots included
Closure(roots) == Downstream(roots, NumTasks)

\* the edge relation, restricted to distinct endpoints, has a cycle: the
\* upstream task of some edge is downstream of its downstream task
HasCycle ==
    \E e \in edges :
       /\ e.upstream_task # e.downstream_task
       /\ e.upstream_task \in Closure({e.downstream_task})

\* order lists each task of S exactly once, and the upstream task of every
\* edge between tasks of S before its downstream task
IsTopologicalOrder(order, S) ==
    /\ Len(order) = Cardinality(S)
    /\ { order[i] : i \in 1..Len(order) } = S
    /\ \A e \in edges :
          (e.upstream_task \in S /\ e.downstream_task \in S) =>
             \E i, j \in 1..Len(order) :
                i < j /\ order[i] = e.upstream_task /\ order[j] = e.downstream_task

\* C1: on a graph built by successful add_task / add_edge calls only,
\* sorted_tasks() returns every task exactly once with the upstream task of
\* every edge before its downstream task, and sorted_tasks(roots) returns such
\* an order of exactly the downstream closure of the roots.
C1_TopologicalOrder ==
    (/\ flow_call.op = "sorted_tasks"
     /\ all_ok
     /\ ~(flow_call.use_roots /\ flow_call.as_str /\ ~(flow_call.roots \subseteq tasks)))
    => /\ flow_call.error = "none"
       /\ IsTopologicalOrder(flow_call.order,
                             IF flow_call.use_roots THEN Closure(flow_call.roots) ELSE tasks)

\* sorted_tasks(roots) has returned on a graph with edges, where the closure
\* of the roots is more than the roots and less than the graph
C1_Witness ==
    /\ flow_call.op = "sorted_tasks"
    /\ all_ok
    /\ flow_call.use_roots
    /\ flow_call.error = "none"
    /\ Closure(flow_call.roots) # flow_call.roots
    /\ Closure(flow_call.roots) # tasks
    /\ flow_call.roots \subseteq tasks
    /\ Len(flow_call.order) = 2

\* C2: an add_edge call that fails with the cycle error leaves the task set
\* and the edge set as they were before the call.
C2_CycleRejectionAtomic ==
    [][(flow_call'.op = "add_edge" /\ flow_call'.error = "cyclic")
          => (tasks' = tasks /\ edges' = edges)]_vars

\* C3: in every reachable state the edge relation has no cycle and
\* sorted_tasks() with no roots succeeds.
C3_AlwaysAcyclic ==
    /\ ~HasCycle
    /\ (flow_call.op = "sorted_tasks" /\ ~flow_call.use_roots) => flow_call.error = "none"

\* no two edges into the same task carry the same non-null key
UniqueKeys ==
    \A e1, e2 \in edges :
       (e1.key # NoKey /\ e1.key = e2.key /\ e1.downstream_task = e2.downstream_task)
          => e1 = e2

\* C4: there is at most one edge per (downstream task, non-null key), and an
\* add_edge whose (downstream, key) matches an existing edge, from whatever
\* upstream, fails with the duplicate-key error and adds no edge.
C4_OneEdgePerKey ==
    /\ []UniqueKeys
    /\ [][\A u, d \in TaskIds, k \in Keys :
             (/\ k # NoKey
              /\ \E e \in edges : e.downstream_task = d /\ e.key = k
              /\ add_edge(u, d, k))
             => (flow_call'.error = "duplicate_key" /\ edges' = edges)]_vars

\* add_edge was rejected for a duplicate key while an edge with that key
\* from another upstream task is in the graph
C4_Witness ==
    /\ flow_call.op = "add_edge"
    /\ flow_call.error = "duplicate_key"
    /\ \E e \in edges : e.key # NoKey
    /\ Cardinality(tasks) = NumTasks
\* =============================================================== the runner

\* run() is over, by a return or by an exception
RunDone == run_pc \in {"returned", "raised"}

AllUpstreamFinished ==
    \A i \in DOMAIN run_in.upstream_states : is_finished(run_in.upstream_states[i])

\* C5: from a prior state other than pending, check_state ends in DONTRUN
\* whatever the upstream states and the trigger are, and the state is not
\* moved to running.
C5_NotPendingDontRun ==
    (RunDone /\ run_in.state # "pending")
    => /\ run_out.check = "DONTRUN"
       /\ ~run_out.started
       /\ ~run_out.body_ran
       /\ (run_in.state # "running" => run_out.state # "running")

\* a finished task was run again with finished upstream tasks and a trigger
\* that passes
C5_Witness ==
    /\ run_pc = "returned"
    /\ run_in.state = "succeeded"
    /\ Len(run_in.upstream_states) = 2
    /\ AllUpstreamFinished
    /\ trigger(run_in.trigger, run_in.upstream_states)
    /\ run_out.check = "DONTRUN"

\* C6: the state leaves pending only if every upstream state is terminal and
\* the trigger, evaluated on them, returned true; with an upstream state that
\* is not terminal check_state ends in DONTRUN without evaluating the trigger.
C6_UpstreamBeforeTrigger ==
    RunDone
    => /\ ((run_in.state = "pending" /\ run_out.state # "pending") \/ run_out.started)
          => /\ AllUpstreamFinished
             /\ run_out.trigger_called
             /\ trigger(run_in.trigger, run_in.upstream_states)
       /\ ~AllUpstreamFinished
          => /\ run_out.check = "DONTRUN"
             /\ ~run_out.trigger_called
             /\ run_out.state = run_in.state

\* a pending task was run with a running upstream task, under a trigger that
\* would have passed
C6_Witness ==
    /\ run_pc = "returned"
    /\ run_in.state = "pending"
    /\ run_in.trigger = "any_successful"
    /\ run_in.upstream_states = <<"succeeded", "running">>
    /\ run_out.check = "DONTRUN"
    /\ ~run_out.trigger_called

\* C7: a run rejected by check_state with DONTRUN never executes the body,
\* and run() returns the prior state.
C7_DontRunKeepsState ==
    (RunDone /\ run_out.check = "DONTRUN")
    => /\ run_pc = "returned"
       /\ ~run_out.body_ran
       /\ run_out.progress = 0
       /\ run_out.state = run_in.state

\* A -> C, B -> C with the default trigger and B failed: C stays pending
C7_Witness ==
    /\ run_pc = "returned"
    /\ run_in.state = "pending"
    /\ run_in.trigger = "all_successful"
    /\ run_in.upstream_states = <<"succeeded", "failed">>
    /\ run_out.check = "DONTRUN"
    /\ run_out.trigger_called
    /\ run_out.state = "pending"

\* C8: a run that starts from pending with its preconditions met ends in the
\* state the body's outcome decides: a return gives succeeded with the
\* returned value as result, SKIP skipped, RETRY and FAIL failed, SHUTDOWN
\* shutdown.
C8_OutcomeDecidesState ==
    (RunDone /\ run_in.state = "pending" /\ run_out.started)
    => /\ run_in.body.kind = "return"
          => (run_out.state = "succeeded" /\ run_out.result = run_in.body.value)
       /\ run_in.body.kind = "SKIP" => run_out.state = "skipped"
       /\ run_in.body.kind = "RETRY" => run_out.state = "failed"
       /\ run_in.body.kind = "FAIL" => run_out.state = "failed"
       /\ run_in.body.kind = "SHUTDOWN" => run_out.state = "shutdown"

\* a started run whose body raised SHUTDOWN has returned
C8_Witness ==
    /\ run_pc = "returned"
    /\ run_in.state = "pending"
    /\ run_out.started
    /\ run_out.body_ran
    /\ run_in.body.kind = "SHUTDOWN"
    /\ run_out.state = "shutdown"

\* C9: whatever run() was called with, it returns a result only together
\* with the state succeeded.
C9_ResultOnlyIfSucceeded ==
    (run_pc = "returned" /\ run_out.result # NoResult) => run_out.state = "succeeded"

\* a started run whose body raised SKIP has returned skipped, without a
\* result, although a success_result was passed
C9_Witness ==
    /\ run_pc = "returned"
    /\ run_out.body_ran
    /\ run_in.body.kind = "SKIP"
    /\ run_in.success_result # NoResult
    /\ run_out.state = "skipped"
    /\ run_out.result = NoResult

\* C10: outside debug mode a body that raises an error which is no signal
\* makes run() return, with the state failed and a non-empty diagnostic (the
\* traceback, which the FAIL signal carries and the runner logs).
C10_ErrorBecomesFailed ==
    (RunDone /\ ~run_in.debug /\ run_out.body_ran /\ run_in.body.kind = "error")
    => /\ run_pc = "returned"
       /\ run_out.state = "failed"
       /\ run_out.caught.kind = "FAIL"
       /\ run_out.caught.msg # ""
       /\ run_out.log = <<[level |-> "info", msg |-> run_out.caught.msg]>>

\* a started run whose body raised such an error outside debug mode is over
C10_Witness ==
    /\ RunDone
    /\ ~run_in.debug
    /\ run_in.state = "pending"
    /\ run_out.body_ran
    /\ run_in.body.kind = "error"
    /\ run_out.state = "failed"

\* C11: in debug mode a body that raises an error which is no signal makes
\* run() raise that same error instead of returning a failed state.
C11_DebugPropagates ==
    (RunDone /\ run_in.debug /\ run_out.body_ran /\ run_in.body.kind = "error")
    => /\ run_pc = "raised"
       /\ run_out.caught.kind = "error"
       /\ run_out.caught.msg = run_in.body.msg

\* C12: a body that raises SUCCESS with a value makes run() return the state
\* succeeded with that value as the result.
C12_SuccessCarriesValue ==
    (RunDone /\ run_out.body_ran /\ run_in.body.kind = "SUCCESS")
    => /\ run_pc = "returned"
       /\ run_out.state = "succeeded"
       /\ run_out.result = run_in.body.value

\* C16: once check_state has passed, run() returns a terminal state, whichever
\* signal the body raises, or if it returns or raises another error outside
\* debug mode.
C16_StartedRunEndsTerminal ==
    (RunDone /\ run_out.started /\ ~(run_in.debug /\ run_in.body.kind = "error"))
    => /\ run_pc = "returned"
       /\ is_finished(run_out.state)

\* C19: an add_edge call that fails with the duplicate-key error leaves the
\* task set and the edge set as they were before the call.
C19_DuplicateRejectionAtomic ==
    [][(flow_call'.op = "add_edge" /\ flow_call'.error = "duplicate_key")
          => (tasks' = tasks /\ edges' = edges)]_vars

\* C20: add_edge(t, t) fails with the cycle error, for every task t and
\* every key (stated for the graphs that no rejected call has touched, where
\* the edges are those of successful calls).
C20_SelfEdgeCycleError ==
    [][\A t \in TaskIds, k \in Keys :
          (all_ok /\ add_edge(t, t, k)) => flow_call'.error = "cyclic"]_vars

\* C20, amended: add_edge(t, t) always fails: with the duplicate-key error
\* when the key is not None and an edge into t carries it already, and with
\* the cycle error otherwise.
C20_SelfEdgeRejected ==
    [][\A t \in TaskIds, k \in Keys :
          add_edge(t, t, k)
          => flow_call'.error =
                IF k # NoKey /\ \E e \in edges : e.downstream_task = t /\ e.key = k
                THEN "duplicate_key" ELSE "cyclic"]_vars

\* add_edge(t, t) has failed with the cycle error on a graph that had no
\* cycle before: the edge from t to t is the only one that closes a cycle
C20_Witness ==
    /\ flow_call.op = "add_edge"
    /\ flow_call.error = "cyclic"
    /\ ~HasCycle
    /\ \E e \in edges : e.upstream_task = e.downstream_task /\ e.key # NoKey
    /\ Cardinality(edges) = 2

\* the graph has no cycle at all, not even an edge from a task to itself
Acyclic == \A e \in edges : e.upstream_task \notin Closure({e.downstream_task})

\* C13: on an acyclic graph and for every set of roots among its tasks,
\* sub_flow(roots) returns a Flow whose tasks are the downstream closure of
\* the roots and whose edges are the edges with both ends in that closure.
C13_SubFlowIsClosure ==
    (/\ flow_call.op = "sub_flow"
     /\ flow_call.use_roots
     /\ flow_call.roots \subseteq tasks
     /\ Acyclic)
    => /\ flow_call.error = "none"
       /\ flow_call.ret_tasks = Closure(flow_call.roots)
       /\ flow_call.ret_edges =
             { e \in edges : /\ e.upstream_task \in Closure(flow_call.roots)
                             /\ e.downstream_task \in Closure(flow_call.roots) }

\* sub_flow(roots) has returned on an acyclic graph in which an edge enters
\* the closure of the roots from outside and another lies inside it
C13_Witness ==
    /\ flow_call.op = "sub_flow"
    /\ flow_call.use_roots
    /\ flow_call.roots \subseteq tasks
    /\ Acyclic
    /\ flow_call.error = "none"
    /\ flow_call.ret_tasks # flow_call.roots
    /\ flow_call.ret_edges # {}
    /\ \E e \in edges : e.upstream_task \notin flow_call.ret_tasks
                        /\ e.downstream_task \in flow_call.ret_tasks

\* C14: a task of the graph is in root_tasks() exactly when upstream_tasks
\* of it is empty, and in terminal_tasks() exactly when downstream_tasks of
\* it is empty.
C14_RootsAndTerminals ==
    \A t \in tasks :
       /\ t \in root_tasks(tasks, edges)
          <=> upstream_tasks(tasks, edges, t) = [error |-> "none", set |-> {}]
       /\ t \in terminal_tasks(tasks, edges)
          <=> downstream_tasks(tasks, edges, t) = [error |-> "none", set |-> {}]
       /\ flow_call.op = "root_tasks"
          => (t \in flow_call.ret_tasks <=> upstream_tasks(tasks, edges, t).set = {})
       /\ flow_call.op = "terminal_tasks"
          => (t \in flow_call.ret_tasks <=> downstream_tasks(tasks, edges, t).set = {})

\* root_tasks() has returned some but not all tasks of a graph with edges
C14_Witness ==
    /\ flow_call.op = "root_tasks"
    /\ flow_call.ret_tasks # {}
    /\ flow_call.ret_tasks # tasks
    /\ flow_call.ret_tasks # terminal_tasks(tasks, edges)
    /\ Cardinality(edges) >= 2

\* C15: a lookup (get_task, upstream_tasks, downstream_tasks, edges_to,
\* edges_from) of a task id that is not in the graph reports a not-found
\* error.
C15_UnknownTaskNotFound ==
    (flow_call.op \in Lookups /\ flow_call.arg \notin tasks)
    => flow_call.error = "not_found"

\* ------------------------------------------------ claims: the sort, step by step

\* the tasks of S reachable from R along edges between tasks of S, R included
RECURSIVE DownstreamIn(_, _, _)
DownstreamIn(S, R, n) ==
    IF n = 0 THEN R
    ELSE DownstreamIn(S,
                      R \cup { e.downstream_task :
                                 e \in { x \in edges : x.upstream_task \in R
                                                       /\ x.downstream_task \in S } },
                      n - 1)

\* the tasks of S contain a cycle among them, a self-edge included
CycleAmong(S) ==
    \E e \in edges :
       /\ e.upstream_task \in S
       /\ e.downstream_task \in S
       /\ e.upstream_task \in DownstreamIn(S, {e.downstream_task}, NumTasks)

\* the tasks the call in progress is to sort
Selected == IF sort.use_roots THEN Closure(sort.roots) ELSE tasks

\* the call in progress has returned or raised
SortDone == sort.pc \in {"returned", "raised"}

\* C17: every call of sorted_tasks, on any graph and with any roots, comes to
\* an end; when its roots, if given by name, name tasks of the flow, it raises
\* 'Flows must be acyclic!' if and only if the selected tasks contain a cycle
\* among them, and otherwise returns a topological order of the selected tasks.
C17_SortTerminates ==
    /\ <>SortDone
    /\ [](( /\ SortDone
            /\ sort.as_str => sort.roots \subseteq tasks )
          => /\ (sort.pc = "raised") <=> CycleAmong(Selected)
             /\ (sort.pc = "raised") => sort.error = "cyclic"
             /\ (sort.pc = "returned") => IsTopologicalOrder(sort.sorted, Selected))

\* a call with roots has followed edges to more tasks, sorted one of them and
\* then raised on a cycle of two or more tasks
C17_Witness ==
    /\ sort.pc = "raised"
    /\ sort.error = "cyclic"
    /\ sort.use_roots
    /\ Selected # sort.roots
    /\ sort.sorted # <<>>
    /\ \A e \in edges : e.upstream_task # e.downstream_task

\* ------------------------------------------- claims: two runs at the same time

\* call i of run() has returned or raised
ConcDone(i) == conc[i].pc \in {"returned", "raised"}

====
